---- MODULE Spec2Model ----
(***************************************************************************)
(* AirNavX bridge: the page API (injected.js), the content-script relay    *)
(* (part_001) and the background service worker (part_002).                *)
(*                                                                         *)
(* One step of the model is one event-loop task of one context: the code   *)
(* that runs from the resumption of an await (a message delivery, a fetch  *)
(* completion, a timer) up to the next await on real I/O.                  *)
(***************************************************************************)
EXTENDS Integers, Sequences, FiniteSets, TLC

-----------------------------------------------------------------------------
(* Bounds of the model *)

\* requests and timer events handled in one run of the discovery runs
MaxReq == 2
\* requests and timer events handled in one run of the single-request runs
MaxSolo == 1
\* candidate ports a sweep walks: the first MaxPorts of each port list, on
\* every host
MaxPorts == 2
\* clock advances in one run
MaxTicks == 2
\* calls made through window.AirNavXBridge in one run
MaxCalls == 2
\* messages posted on the window by other scripts of the page in one run
MaxPosts == 2
\* fetch-by-id calls with a non-empty id in one run of the content runs
MaxFetch == 1

-----------------------------------------------------------------------------
(* Program constants *)

MESSAGE_PREFIX == "AIRNAVX_BRIDGE_"
REQUEST == "AIRNAVX_BRIDGE_REQUEST"
RESPONSE == "AIRNAVX_BRIDGE_RESPONSE"

\* part_001:8
CACHE_DURATION == 30000
\* part_001:97-98
candidatePorts == <<59720, 51798, 54320, 52000, 51800, 50000, 53000>>
hostsToTest == <<"127.0.0.1", "localhost">>
\* part_002:7-10
AIRNAVX_CANDIDATE_PORTS == <<59720, 51798, 54320, 52000, 50000, 53000>>
AIRNAVX_HOSTS == <<"127.0.0.1", "localhost">>
BG_CACHE_DURATION == 5 * 60 * 1000
\* part_002:316-318
REFRESH_INTERVAL == 5 * 60 * 1000
\* injected.js:73-79
CALL_TIMEOUT == 30000
\* part_001:259
ATTEMPT_TIMEOUT == 10000

\* the double loop `for host ... for port ...` as one ordered list of pairs
Pairs(hosts, ports) ==
    [i \in 1..(Len(hosts) * Len(ports)) |->
        [host |-> hosts[((i - 1) \div Len(ports)) + 1],
         port |-> ports[((i - 1) % Len(ports)) + 1]]]

\* the first n entries of a list
Prefix(list, n) == SubSeq(list, 1, IF n < Len(list) THEN n ELSE Len(list))

\* the ports a sweep walks: the first MaxPorts of its list, and the whole
\* list in the runs that set the two sweeps side by side
Walked(ports, ctx) == Prefix(ports, IF ctx = "both" THEN Len(ports) ELSE MaxPorts)

\* JavaScript null / undefined
NULL == [null |-> TRUE]
\* a message field that is not present (undefined)
Absent == "<absent>"

\* what a fetch can do: resolve with an ok status, resolve with a non-ok
\* status, reject (connection refused, network error), or be aborted by the
\* AbortController timer
FetchOutcomes == {"ok", "status", "refused", "abort"}

\* the clock advances by half the validity window of the context a run
\* follows: two advances expire a cache entry, one does not
TickStep(ctx) ==
    CASE ctx = "bg" -> BG_CACHE_DURATION \div 2
      [] ctx = "relay" -> CACHE_DURATION \div 2
      [] OTHER -> CALL_TIMEOUT \div 2
\* Date.now() at load time (any positive instant)
StartTime == CACHE_DURATION \div 2

-----------------------------------------------------------------------------
VARIABLES
    context,                \* the context whose requests the run follows
    now,                    \* Date.now()
    ticks,                  \* clock advances so far
    windowQueue,            \* window message events not yet dispatched
    rq,                     \* the requests received so far, with their handler's position
    airnavxCache,           \* part_001:6
    airnavxCacheTimestamp,  \* part_001:7
    airnavxCacheWriter,     \* the handlers whose sweeps wrote airnavxCache and its timestamp
    detectedAirNavX,        \* part_002:13
    lastDetectionTime,      \* part_002:14 (null, like 0, is falsy: 0 stands for it)
    detectedWriter,         \* the handlers whose sweeps wrote detectedAirNavX and lastDetectionTime
    badge,                  \* chrome.action badge text
    storage,                \* chrome.storage.local
    requestCounter,         \* injected.js:7
    pendingRequests,        \* injected.js:8
    calls,                  \* the promises sendMessage returned, by requestId
    posts                   \* messages posted by other scripts so far

clockVars == <<context, now, ticks>>
relayVars == <<airnavxCache, airnavxCacheTimestamp, airnavxCacheWriter>>
bgVars == <<detectedAirNavX, lastDetectionTime, detectedWriter, badge, storage>>
callerVars == <<requestCounter, pendingRequests, calls>>
vars == <<context, now, ticks, windowQueue, rq, airnavxCache, airnavxCacheTimestamp,
          airnavxCacheWriter, detectedAirNavX, lastDetectionTime, detectedWriter,
          badge, storage,
          requestCounter, pendingRequests, calls, posts>>

RelayCandidates == Pairs(hostsToTest, Walked(candidatePorts, context))
BgCandidates == Pairs(AIRNAVX_HOSTS, Walked(AIRNAVX_CANDIDATE_PORTS, context))

\* who wrote a cache: the handler whose sweep assigned the value, the one
\* whose sweep assigned the timestamp, and Date.now() at the assignment of
\* the value; 0 stands for the initial values
NoWriter == [value |-> 0, stamp |-> 0, at |-> 0]

\* a slip: the timestamp is not assigned in the task that assigns the value
ValueBeforeStamp(k) == [value |-> TRUE, stamp |-> FALSE]

\* the assignments of the value and of the timestamp are consecutive
\* statements (part_001:128-129, 145-146, part_002:45-46, 72-73)
ValueAndStamp(k) == [value |-> TRUE, stamp |-> TRUE]

\* the writer record after handler k's sweep made its assignments
Written(writer, k) ==
    [value |-> IF ValueAndStamp(k).value THEN k ELSE writer.value,
     stamp |-> IF ValueAndStamp(k).stamp THEN k ELSE writer.stamp,
     at |-> IF ValueAndStamp(k).value THEN now ELSE writer.at]

-----------------------------------------------------------------------------
(* Handler records *)

\* the last sweep of the context ended without finding the service, less
\* than a validity window ago (part_001:140-146, part_002:72-73)
NotFoundFresh(layer) ==
    CASE layer = "relay" ->
            /\ airnavxCache = [success |-> FALSE]
            /\ now - airnavxCacheTimestamp < CACHE_DURATION
      [] layer = "bg" ->
            /\ detectedAirNavX = NULL
            /\ lastDetectionTime # 0
            /\ now - lastDetectionTime < BG_CACHE_DURATION
      [] OTHER -> FALSE

\* a request as its handler sees it, and the handler's position
\*   pc: "probe"   a discovery fetch to candidate idx is in flight
\*       "store"   chrome.storage.local.set is in flight (service worker)
\*       "search"  the relay's search fetch is in flight
\*       "attempt" the relay's content attempt att is in flight
\*       "fetch"   fetchFromAirNavX's fetch is in flight (service worker)
\*       "done"    the handler returned
\*   http: the HTTP requests it issued; okAt: the first candidate that answered ok
\*   outs: what the content attempts' fetches did, in order; okAtt: the first
\*   attempt whose response had an ok status
\*   t0: Date.now() when it was called; swept: it went past the cache test
\*   afterNotFound: it was called within the validity window of a sweep that
\*   ended without finding the service
\*   verb, body: the method and body options of a customFetch request; the
\*   body is not given or falsy ("null"), the empty object ("{}") or an
\*   object with keys ("full")
NewHandler(layer, method, requestId, force, arg) ==
    [layer |-> layer, method |-> method, requestId |-> requestId,
     force |-> force, arg |-> arg,
     pc |-> "done", idx |-> 0, att |-> 0, errors |-> <<>>, ep |-> NULL,
     swept |-> FALSE, t0 |-> now, afterNotFound |-> NotFoundFresh(layer), http |-> <<>>, okAt |-> 0,
     outs |-> <<>>, okAtt |-> 0, replies |-> <<>>,
     verb |-> Absent, body |-> "null"]

\* an HTTP request, as the network sees it: where it goes, its method, its
\* path and query (`name`, without the values put in) and whether it has a body
HttpReq(kind, ep, verb, name, body) ==
    [kind |-> kind, host |-> ep.host, port |-> ep.port, verb |-> verb,
     name |-> name, body |-> body]

\* the candidates a handler has probed, in order
Probed(h) == [i \in 1..Len(SelectSeq(h.http, LAMBDA q : q.kind = "probe")) |->
                 [host |-> SelectSeq(h.http, LAMBDA q : q.kind = "probe")[i].host,
                  port |-> SelectSeq(h.http, LAMBDA q : q.kind = "probe")[i].port]]

-----------------------------------------------------------------------------
(* The window message channel *)

\* event.source and event.data of a message event
Msg(source, type, method, requestId, detailed, arg, result, error) ==
    [source |-> source, type |-> type, method |-> method, requestId |-> requestId,
     detailed |-> detailed, arg |-> arg, result |-> result, error |-> error]

RequestMsg(method, requestId, detailed, arg) ==
    Msg("window", REQUEST, method, requestId, detailed, arg, NULL, NULL)

\* an Error, by its message (and, for fetchContent, the per-attempt lines)
Err(message) == [message |-> message, errors |-> <<>>]

-----------------------------------------------------------------------------
(* Relay: content script, part_001 *)

\* window.postMessage of a result (part_001:55-59)
RelayReplyResult(h, result) ==
    [h EXCEPT !.pc = "done",
              !.replies = Append(@, Msg("window", RESPONSE, Absent, h.requestId,
                                        FALSE, "", result, NULL))]

\* the catch block's window.postMessage (part_001:61-80)
RelayReplyError(h, error) ==
    [h EXCEPT !.pc = "done",
              !.replies = Append(@, Msg("window", RESPONSE, Absent, h.requestId,
                                        FALSE, "", NULL, error))]

\* the fallback list of fetchContent (part_001:208-247)
attempts == <<
    [name |-> "GET with dataModuleId param", method |-> "GET", body |-> FALSE,
     url |-> "/airnavx/api/dataModule/content?dataModuleId="],
    [name |-> "GET with all params", method |-> "GET", body |-> FALSE,
     url |-> "/airnavx/api/dataModule/content?dataModuleId=&forHatch=false&forPrint=false"],
    [name |-> "GET with dmCode param", method |-> "GET", body |-> FALSE,
     url |-> "/airnavx/api/dataModule/content?dmCode="],
    [name |-> "GET with id param", method |-> "GET", body |-> FALSE,
     url |-> "/airnavx/api/dataModule/content?id="],
    [name |-> "GET alternative endpoint", method |-> "GET", body |-> FALSE,
     url |-> "/airnavx/api/content/"],
    [name |-> "GET viewer endpoint", method |-> "GET", body |-> FALSE,
     url |-> "/airnavx/api/viewer/content?dataModuleId="],
    [name |-> "POST with JSON body", method |-> "POST", body |-> TRUE,
     url |-> "/airnavx/api/dataModule/content"] >>

\* the fetch of attempt i (part_001:261-275): a body only for POST with a body
IssueAttempt(h, i) ==
    [h EXCEPT !.pc = "attempt", !.att = i,
              !.http = Append(@, HttpReq("content", h.ep, attempts[i].method,
                                         attempts[i].url,
                                         attempts[i].method = "POST" /\ attempts[i].body))]

\* the throw after the loop (part_001:318-323)
AllAttemptsFailed(h) ==
    RelayReplyError(h, [message |-> "Failed to fetch content after attempts",
                        errors |-> h.errors])

\* a slip: the NotFound result is handed back as the search's result
SearchAfterDetectUnchecked(h, detection) ==
    IF ~detection.success
    THEN RelayReplyResult(h, detection)
    ELSE [h EXCEPT !.pc = "search", !.ep = detection,
                   !.http = Append(@, HttpReq("search", detection, "GET", "search", FALSE))]

\* searchTasks after `await detectAirNavX()` (part_001:155-176)
SearchAfterDetect(h, detection) ==
    IF ~detection.success
    THEN RelayReplyError(h, Err("AirNavX not available"))
    ELSE [h EXCEPT !.pc = "search", !.ep = detection,
                   !.http = Append(@, HttpReq("search", detection, "GET", "search", FALSE))]

\* fetchContent after `await detectAirNavX()` (part_001:200-252)
FetchContentAfterDetect(h, detection) ==
    IF ~detection.success
    THEN RelayReplyError(h, Err("AirNavX not available"))
    ELSE IssueAttempt([h EXCEPT !.ep = detection], 1)

\* the caller of detectAirNavX resumes with its result (part_001:36-46)
RelayAfterDetect(h, detection) ==
    CASE h.method = "detect" -> RelayReplyResult(h, detection)
      [] h.method = "search" -> SearchAfterDetect(h, detection)
      [] OTHER -> FetchContentAfterDetect(h, detection)

\* `airnavxCache && (now - airnavxCacheTimestamp) < CACHE_DURATION` (part_001:92)
RelayCacheValid ==
    airnavxCache # NULL /\ (now - airnavxCacheTimestamp) < CACHE_DURATION

\* the fetch of the probe of candidate i (part_001:103-115)
RelayIssueProbe(h, i) ==
    [h EXCEPT !.pc = "probe", !.idx = i, !.swept = TRUE,
              !.http = Append(@, HttpReq("probe", RelayCandidates[i], "GET", "probe", FALSE))]

\* detectAirNavX up to its first await (part_001:87-109); the argument is not read
RelayDetectStart(h) ==
    IF RelayCacheValid
    THEN RelayAfterDetect(h, airnavxCache)
    ELSE RelayIssueProbe(h, 1)

\* a slip: a switch without its default branch
RelayDispatchNoDefault(h) ==
    CASE h.method \in {"detect", "search"} -> RelayDetectStart(h)
      [] h.method = "fetchContent" ->
            IF h.arg = "" THEN RelayReplyError(h, Err("dataModuleId is required"))
                          ELSE RelayDetectStart(h)
      [] OTHER -> h

\* the switch of the message listener (part_001:32-50), up to the first await
RelayDispatch(h) ==
    CASE h.method = "detect" -> RelayDetectStart(h)
      [] h.method = "search" -> RelayDetectStart(h)
      [] h.method = "fetchContent" ->
            IF h.arg = "" THEN RelayReplyError(h, Err("dataModuleId is required"))
                          ELSE RelayDetectStart(h)
      [] OTHER -> RelayReplyError(h, Err("Unknown method"))

\* the relay's message listener (part_001:15-50)
RelayOnMessage(m) ==
    IF m.source # "window" \/ m.type # REQUEST
    THEN rq
    ELSE IF m.method = Absent
    THEN Append(rq, NewHandler("relay", m.method, m.requestId, m.detailed, m.arg))
    ELSE Append(rq, RelayDispatch(NewHandler("relay", m.method, m.requestId,
                                             m.detailed, m.arg)))

\* the messages a handler posted in this step
Posted(old, new) ==
    IF Len(new.replies) > Len(old.replies) THEN <<new.replies[Len(new.replies)]>> ELSE <<>>

\* a probe's fetch settles (part_001:109-147)
RelayProbeResume(h, outcome) ==
    IF outcome = "ok"
    THEN RelayAfterDetect([h EXCEPT !.okAt = IF @ = 0 THEN h.idx ELSE @],
                          [success |-> TRUE, host |-> RelayCandidates[h.idx].host,
                           port |-> RelayCandidates[h.idx].port])
    ELSE IF h.idx < Len(RelayCandidates)
    THEN RelayIssueProbe(h, h.idx + 1)
    ELSE RelayAfterDetect(h, [success |-> FALSE])

\* what the probe's resumption writes to the cache (part_001:128-129, 145-146)
RelayProbePublishes(h, outcome) == outcome = "ok" \/ h.idx = Len(RelayCandidates)

RelayProbeResult(h, outcome) ==
    IF outcome = "ok"
    THEN [success |-> TRUE, host |-> RelayCandidates[h.idx].host,
          port |-> RelayCandidates[h.idx].port]
    ELSE [success |-> FALSE]

\* what the search fetch can do; it has no abort timer (part_001:171-176)
SearchOutcomes == {"json", "badjson", "status", "refused"}

\* searchTasks after its fetch (part_001:178-188)
SearchResume(h, outcome) ==
    CASE outcome = "json" -> RelayReplyResult(h, [success |-> TRUE, data |-> "results"])
      [] outcome = "badjson" -> RelayReplyError(h, Err("Unexpected token"))
      [] outcome = "status" -> RelayReplyError(h, Err("Search failed with status"))
      [] OTHER -> RelayReplyError(h, Err("Failed to fetch"))

\* what a content attempt's fetch can do: an ok response with a JSON body, with
\* a JSON content type and a body that does not parse, or with any other
\* content type; a non-ok status; a network error; the 10 s abort
AttemptOutcomes == {"json", "badjson", "text", "status", "refused", "abort"}

\* the reason pushed on `errors` (part_001:306-313)
AttemptReason(outcome) ==
    CASE outcome = "status" -> "HTTP status"
      [] outcome = "abort" -> "Request timeout (10s)"
      [] outcome = "badjson" -> "Unexpected token"
      [] OTHER -> "Failed to fetch"

\* the outcomes in which the response has an ok status (part_001:280)
OkOutcomes == {"json", "badjson", "text"}

\* the handler, with the outcome of its current attempt noted
Noted(h, outcome) ==
    [h EXCEPT !.outs = Append(@, outcome),
              !.okAtt = IF @ = 0 /\ outcome \in OkOutcomes THEN h.att ELSE @]

\* a slip: only the last failure is kept
AttemptResumeLastError(h, outcome) ==
    IF outcome \in {"json", "text"}
    THEN RelayReplyResult(Noted(h, outcome), [success |-> TRUE, data |-> outcome,
                                              method |-> attempts[h.att].name])
    ELSE LET g == [Noted(h, outcome) EXCEPT
                       !.errors = <<[name |-> attempts[h.att].name,
                                     reason |-> AttemptReason(outcome)]>>]
         IN  IF h.att < Len(attempts) THEN IssueAttempt(g, h.att + 1)
                                      ELSE AllAttemptsFailed(g)

\* one turn of the attempt loop after its fetch (part_001:275-316)
AttemptResume(h, outcome) ==
    IF outcome \in {"json", "text"}
    THEN RelayReplyResult(Noted(h, outcome), [success |-> TRUE, data |-> outcome,
                                              method |-> attempts[h.att].name])
    ELSE LET g == [Noted(h, outcome) EXCEPT
                       !.errors = Append(@, [name |-> attempts[h.att].name,
                                             reason |-> AttemptReason(outcome)])]
         IN  IF h.att < Len(attempts) THEN IssueAttempt(g, h.att + 1)
                                      ELSE AllAttemptsFailed(g)

-----------------------------------------------------------------------------
(* Actions of the relay path *)

Replace(k, h) == [rq EXCEPT ![k] = h]

\* a request's input: method or action, detect's flag, id / query / endpoint
In(method, flag, arg) ==
    [method |-> method, flag |-> flag, arg |-> arg, verb |-> Absent, body |-> "null"]

\* a customFetch request: endpoint, method and body (part_002:268)
InCustom(endpoint, verb, body) ==
    [method |-> "customFetch", flag |-> FALSE, arg |-> endpoint, verb |-> verb, body |-> body]

\* a REQUEST message event posted by a script of the page reaches the relay's
\* listener; at most `max` requests in a run
RelayReceive(in, max) ==
    /\ context \in {"relay", "both"}
    /\ Len(rq) < max
    /\ LET after == RelayOnMessage(RequestMsg(in.method, Len(rq) + 1, in.flag, in.arg))
       IN  /\ rq' = after
           /\ windowQueue' = windowQueue \o after[Len(after)].replies
    /\ UNCHANGED <<clockVars, relayVars, bgVars, callerVars, posts>>

\* the probe fetch of relay handler k settles
RelayProbeDone(k, outcome) ==
    /\ rq[k].layer = "relay" /\ rq[k].pc = "probe"
    /\ LET h == RelayProbeResume(rq[k], outcome)
       IN  /\ rq' = Replace(k, h)
           /\ windowQueue' = windowQueue \o Posted(rq[k], h)
    /\ IF RelayProbePublishes(rq[k], outcome)
       THEN /\ airnavxCache' = RelayProbeResult(rq[k], outcome)
            /\ airnavxCacheTimestamp' = IF ValueAndStamp(k).stamp THEN now
                                        ELSE airnavxCacheTimestamp
            /\ airnavxCacheWriter' = Written(airnavxCacheWriter, k)
       ELSE UNCHANGED relayVars
    /\ UNCHANGED <<clockVars, bgVars, callerVars, posts>>

\* the search fetch of relay handler k settles
RelaySearchDone(k, outcome) ==
    /\ rq[k].layer = "relay" /\ rq[k].pc = "search"
    /\ LET h == SearchResume(rq[k], outcome)
       IN  /\ rq' = Replace(k, h)
           /\ windowQueue' = windowQueue \o Posted(rq[k], h)
    /\ UNCHANGED <<clockVars, relayVars, bgVars, callerVars, posts>>

\* the fetch of the current content attempt of relay handler k settles
RelayAttemptDone(k, outcome) ==
    /\ rq[k].layer = "relay" /\ rq[k].pc = "attempt"
    /\ LET h == AttemptResume(rq[k], outcome)
       IN  /\ rq' = Replace(k, h)
           /\ windowQueue' = windowQueue \o Posted(rq[k], h)
    /\ UNCHANGED <<clockVars, relayVars, bgVars, callerVars, posts>>

-----------------------------------------------------------------------------
(* The content script of part_000: the same listener, a sweep without a cache *)
(* and without a probe timeout, and a fallback list of three attempts         *)

\* the fallback list of fetchContent (part_000:276-292); the body is the
\* object with the id and the flags ("full"), `{}` ("empty") or null
altAttempts == <<
    [method |-> "POST", body |-> "full",
     url |-> "/airnavx/api/dataModule/content"],
    [method |-> "POST", body |-> "empty",
     url |-> "/airnavx/api/dataModule/content?dataModuleId=&forHatch=false&forPrint=false"],
    [method |-> "GET", body |-> "null",
     url |-> "/airnavx/api/dataModule/content?dataModuleId="] >>

\* the fetch of attempt i (part_000:300-312): a body only for POST with a
\* body that has keys
AltIssueAttempt(h, i) ==
    [h EXCEPT !.pc = "attempt", !.att = i,
              !.http = Append(@, HttpReq("content", h.ep, altAttempts[i].method,
                                         altAttempts[i].url,
                                         altAttempts[i].method = "POST"
                                            /\ altAttempts[i].body = "full"))]

\* fetchContent after `await detectAirNavX()` (part_000:268-296)
AltFetchContentAfterDetect(h, detection) ==
    IF ~detection.success
    THEN RelayReplyError(h, Err("AirNavX not available"))
    ELSE AltIssueAttempt([h EXCEPT !.ep = detection], 1)

\* the caller of detectAirNavX resumes with its result (part_000:137-148)
AltAfterDetect(h, detection) ==
    CASE h.method = "detect" -> RelayReplyResult(h, detection)
      [] h.method = "search" -> SearchAfterDetect(h, detection)
      [] OTHER -> AltFetchContentAfterDetect(h, detection)

\* the fetch of the probe of candidate i (part_000:180-193): the same lists
AltIssueProbe(h, i) ==
    [h EXCEPT !.pc = "probe", !.idx = i, !.swept = TRUE,
              !.http = Append(@, HttpReq("probe", RelayCandidates[i], "GET", "probe", FALSE))]

\* the switch of the message listener (part_000:134-152), up to the first
\* await; detectAirNavX starts its sweep at once
AltDispatch(h) ==
    CASE h.method \in {"detect", "search"} -> AltIssueProbe(h, 1)
      [] h.method = "fetchContent" ->
            IF h.arg = "" THEN RelayReplyError(h, Err("dataModuleId is required"))
                          ELSE AltIssueProbe(h, 1)
      [] OTHER -> RelayReplyError(h, Err("Unknown method"))

\* the message listener (part_000:117-152)
AltOnMessage(m) ==
    IF m.source # "window" \/ m.type # REQUEST
    THEN rq
    ELSE IF m.method = Absent
    THEN Append(rq, NewHandler("alt", m.method, m.requestId, m.detailed, m.arg))
    ELSE Append(rq, AltDispatch(NewHandler("alt", m.method, m.requestId,
                                           m.detailed, m.arg)))

\* what a fetch without an abort timer can do
AltProbeOutcomes == {"ok", "status", "refused"}

\* a probe's fetch settles (part_000:188-215)
AltProbeResume(h, outcome) ==
    IF outcome = "ok"
    THEN AltAfterDetect([h EXCEPT !.okAt = IF @ = 0 THEN h.idx ELSE @],
                        [success |-> TRUE, host |-> RelayCandidates[h.idx].host,
                         port |-> RelayCandidates[h.idx].port])
    ELSE IF h.idx < Len(RelayCandidates)
    THEN AltIssueProbe(h, h.idx + 1)
    ELSE AltAfterDetect(h, [success |-> FALSE])

\* what a content attempt's fetch can do; response.json() is called whatever
\* the content type (part_000:312-317)
AltAttemptOutcomes == {"json", "badjson", "status", "refused"}

\* one turn of the attempt loop after its fetch (part_000:312-338): only the
\* last error is kept, and thrown after the loop
AltAttemptResume(h, outcome) ==
    IF outcome = "json"
    THEN RelayReplyResult(Noted(h, outcome), [success |-> TRUE, data |-> outcome])
    ELSE LET g == [Noted(h, outcome) EXCEPT
                       !.errors = <<[name |-> altAttempts[h.att].url,
                                     reason |-> AttemptReason(outcome)]>>]
         IN  IF h.att < Len(altAttempts) THEN AltIssueAttempt(g, h.att + 1)
                                         ELSE RelayReplyError(g, Err(AttemptReason(outcome)))

\* a REQUEST message event reaches the listener
AltReceive(in, max) ==
    /\ context = "alt"
    /\ Len(rq) < max
    /\ LET after == AltOnMessage(RequestMsg(in.method, Len(rq) + 1, in.flag, in.arg))
       IN  /\ rq' = after
           /\ windowQueue' = windowQueue \o after[Len(after)].replies
    /\ UNCHANGED <<clockVars, relayVars, bgVars, callerVars, posts>>

\* the probe fetch of handler k settles
AltProbeDone(k, outcome) ==
    /\ rq[k].layer = "alt" /\ rq[k].pc = "probe"
    /\ LET h == AltProbeResume(rq[k], outcome)
       IN  /\ rq' = Replace(k, h)
           /\ windowQueue' = windowQueue \o Posted(rq[k], h)
    /\ UNCHANGED <<clockVars, relayVars, bgVars, callerVars, posts>>

\* the search fetch of handler k settles (part_000:239-256)
AltSearchDone(k, outcome) ==
    /\ rq[k].layer = "alt" /\ rq[k].pc = "search"
    /\ LET h == SearchResume(rq[k], outcome)
       IN  /\ rq' = Replace(k, h)
           /\ windowQueue' = windowQueue \o Posted(rq[k], h)
    /\ UNCHANGED <<clockVars, relayVars, bgVars, callerVars, posts>>

\* the fetch of the current content attempt of handler k settles
AltAttemptDone(k, outcome) ==
    /\ rq[k].layer = "alt" /\ rq[k].pc = "attempt"
    /\ LET h == AltAttemptResume(rq[k], outcome)
       IN  /\ rq' = Replace(k, h)
           /\ windowQueue' = windowQueue \o Posted(rq[k], h)
    /\ UNCHANGED <<clockVars, relayVars, bgVars, callerVars, posts>>

-----------------------------------------------------------------------------
(* Coordinator: background service worker, part_002 *)

\* sendResponse(value) on the channel of the request
BgReply(h, value) ==
    [h EXCEPT !.pc = "done",
              !.replies = Append(@, Msg("runtime", RESPONSE, Absent, h.requestId,
                                        FALSE, "", value, NULL))]

Failure(error) == [success |-> FALSE, error |-> error]

\* the path and query fetchFromAirNavX is handed (part_002:222-229,
\* 248-254, 275), without the values put in
BgFetchUrl(h) ==
    CASE h.method = "search" ->
            "/airnavx/api/viewer/search?q=&page=&aggregationList=&queryWithAggregation=false"
      [] h.method = "fetchContent" ->
            "/airnavx/api/dataModule/content?dataModuleId=&forHatch=false&forPrint=false"
      [] OTHER -> h.arg

\* the handlers that call fetchFromAirNavX, with the method and body they
\* pass (part_002:222-230, 248-257, 275-279); `{}` is a body, null is none
BgFetchVerb(h) ==
    CASE h.method = "search" -> "GET"
      [] h.method = "fetchContent" -> "POST"
      [] OTHER -> IF h.verb = Absent THEN "GET" ELSE h.verb

BgFetchBody(h) ==
    CASE h.method = "fetchContent" -> "{}"
      [] h.method = "customFetch" -> h.body
      [] OTHER -> "null"

\* `if (body) { if (method === 'POST' || method === 'PUT') ...}` (part_002:113-118)
BgBodyAttached(verb, body) == body # "null" /\ verb \in {"POST", "PUT"}

\* the first character of an endpoint text
Lead(endpoint) ==
    CASE endpoint = "@example.com/x" -> "@"
      [] endpoint = ".example.com/x" -> "."
      [] endpoint = "0/x" -> "0"
      [] OTHER -> "/"

NoUrl == [valid |-> FALSE, credentials |-> FALSE, host |-> "", port |-> 0]

\* what the URL parser makes of `http://${host}:${port}${endpoint}`
\* (part_002:96): the authority ends at the first "/" or "?"; up to an "@"
\* it is the credentials, and the port is a number of at most 65535
ParseUrl(airnavx, endpoint) ==
    CASE Lead(endpoint) = "@" ->
            [valid |-> TRUE, credentials |-> TRUE, host |-> "example.com", port |-> 80]
      [] Lead(endpoint) = "." -> NoUrl
      [] Lead(endpoint) = "0" ->
            IF airnavx.port * 10 <= 65535
            THEN [valid |-> TRUE, credentials |-> FALSE, host |-> airnavx.host,
                  port |-> airnavx.port * 10]
            ELSE NoUrl
      [] OTHER -> [valid |-> TRUE, credentials |-> FALSE, host |-> airnavx.host,
                   port |-> airnavx.port]

\* a slip: a fetch that sends a request to a URL with credentials
FetchAcceptsCredentials(url) == url.valid

\* fetch(url) sends a request unless the URL does not parse or includes
\* credentials; it rejects with a TypeError then (part_002:126)
FetchAccepts(url) == url.valid /\ ~url.credentials

\* fetchFromAirNavX after `await detectAirNavX()` (part_002:86-126); a throw
\* lands in the handler's catch, which replies (e.g. part_002:234-236)
FetchFromAirNavXAfterDetect(h, airnavx) ==
    IF airnavx = NULL
    THEN BgReply(h, Failure("AirNavX not detected. Please ensure AirNavX is running."))
    ELSE IF ~FetchAccepts(ParseUrl(airnavx, BgFetchUrl(h)))
    THEN BgReply([h EXCEPT !.ep = airnavx], Failure("TypeError"))
    ELSE [h EXCEPT !.pc = "fetch", !.ep = airnavx,
                   !.http = Append(@, HttpReq(h.method, ParseUrl(airnavx, BgFetchUrl(h)),
                                              BgFetchVerb(h), BgFetchUrl(h),
                                              BgBodyAttached(BgFetchVerb(h), BgFetchBody(h))))]

\* handleDetect after `await detectAirNavX(...)` (part_002:194-207)
HandleDetectAfterDetect(h, result) ==
    IF result # NULL
    THEN BgReply(h, [success |-> TRUE, host |-> result.host, port |-> result.port])
    ELSE BgReply(h, Failure("AirNavX not found. Please ensure it is running."))

\* the listeners that only await the sweep (part_002:303-318)
BgTimers == {"onInstalled", "onStartup", "setInterval"}

\* the caller of detectAirNavX resumes with its result
BgAfterDetect(h, result) ==
    CASE h.method = "detect" -> HandleDetectAfterDetect(h, result)
      [] h.method \in BgTimers -> [h EXCEPT !.pc = "done"]
      [] OTHER -> FetchFromAirNavXAfterDetect(h, result)

\* the cache test of the service worker's detectAirNavX (part_002:21-22)
BgCacheValid(forceRefresh) ==
    /\ ~forceRefresh
    /\ detectedAirNavX # NULL
    /\ lastDetectionTime # 0
    /\ now - lastDetectionTime < BG_CACHE_DURATION

\* the fetch of the probe of candidate i (part_002:31-40)
BgIssueProbe(h, i) ==
    [h EXCEPT !.pc = "probe", !.idx = i, !.swept = TRUE,
              !.http = Append(@, HttpReq("probe", BgCandidates[i], "GET", "probe", FALSE))]

\* detectAirNavX(forceRefresh) up to its first await (part_002:19-40)
BgDetectStart(h, forceRefresh) ==
    IF BgCacheValid(forceRefresh)
    THEN BgAfterDetect(h, detectedAirNavX)
    ELSE BgIssueProbe(h, 1)

\* a slip: handleFetchContent without its test of the id
BgDispatchNoIdTest(h) ==
    IF h.method = "fetchContent" THEN BgDetectStart(h, FALSE)
    ELSE BgReply(h, Failure("Unknown action"))

\* the switch of the onMessage listener and each handler up to its first
\* await (part_002:158-298)
BgDispatch(h) ==
    CASE h.method = "detect" -> BgDetectStart(h, h.force)
      [] h.method = "search" ->
            IF h.arg = "" THEN BgReply(h, Failure("Query parameter required"))
                          ELSE BgDetectStart(h, FALSE)
      [] h.method = "fetchContent" ->
            IF h.arg = "" THEN BgReply(h, Failure("dataModuleId required"))
                          ELSE BgDetectStart(h, FALSE)
      [] h.method = "customFetch" ->
            IF h.arg = "" THEN BgReply(h, Failure("endpoint required"))
                          ELSE BgDetectStart(h, FALSE)
      [] h.method = "getStatus" ->
            BgReply(h, [success |-> TRUE,
                        status |-> [detected |-> detectedAirNavX # NULL,
                                    endpoint |-> detectedAirNavX,
                                    lastCheck |-> lastDetectionTime]])
      [] h.method \in BgTimers -> BgDetectStart(h, TRUE)
      [] OTHER -> BgReply(h, Failure("Unknown action"))

\* the loop of detectAirNavX moves on from candidate h.idx (part_002:64-79)
BgNextCandidate(h) ==
    IF h.idx < Len(BgCandidates)
    THEN BgIssueProbe(h, h.idx + 1)
    ELSE BgAfterDetect(h, NULL)

\* what chrome.storage.local.set can do: resolve, or reject (the write fails)
StoreOutcomes == {"ok", "fail"}

\* what fetchFromAirNavX's fetch can do; response.json() is called whatever
\* the content type (part_002:126-152)
BgFetchOutcomes == {"json", "badjson", "status", "refused", "abort"}

BgFetchResume(h, outcome) ==
    CASE outcome = "json" -> BgReply(h, [success |-> TRUE, data |-> "json",
                                         host |-> h.ep.host, port |-> h.ep.port])
      [] outcome = "badjson" -> BgReply(h, Failure("Unexpected token"))
      [] outcome = "status" -> BgReply(h, Failure("HTTP status"))
      [] outcome = "abort" -> BgReply(h, Failure("Request timeout - AirNavX not responding"))
      [] OTHER -> BgReply(h, Failure("Failed to fetch"))

-----------------------------------------------------------------------------
(* Actions of the coordinator *)

\* chrome.runtime.onMessage delivers a request (part_002:158-185)
BgReceive(in, max) ==
    /\ context \in {"bg", "both"}
    /\ Len(rq) < max
    /\ in.method \notin BgTimers
    /\ rq' = Append(rq, BgDispatch([NewHandler("bg", in.method, Len(rq) + 1, in.flag, in.arg)
                                        EXCEPT !.verb = in.verb, !.body = in.body]))
    /\ UNCHANGED <<clockVars, windowQueue, relayVars, bgVars, callerVars, posts>>

\* handlers of kind `timer` started so far
Fired(timer) == Len(SelectSeq(rq, LAMBDA h : h.layer = "bg" /\ h.method = timer))

\* onInstalled or onStartup fires (once), or the 5 minute interval elapses
BgTimer(timer, max) ==
    /\ context = "bg"
    /\ Len(rq) < max
    /\ timer \in BgTimers
    /\ IF timer = "setInterval"
       THEN now - StartTime >= REFRESH_INTERVAL * (Fired(timer) + 1)
       ELSE Fired(timer) = 0
    /\ rq' = Append(rq, BgDispatch(NewHandler("bg", timer, Len(rq) + 1, TRUE, "")))
    /\ UNCHANGED <<clockVars, windowQueue, relayVars, bgVars, callerVars, posts>>

\* the probe fetch of handler k settles (part_002:36-79)
BgProbeDone(k, outcome) ==
    /\ rq[k].layer = "bg" /\ rq[k].pc = "probe"
    /\ IF outcome = "ok"
       THEN /\ detectedAirNavX' = BgCandidates[rq[k].idx]
            /\ lastDetectionTime' = IF ValueAndStamp(k).stamp THEN now ELSE lastDetectionTime
            /\ detectedWriter' = Written(detectedWriter, k)
            /\ rq' = Replace(k, [rq[k] EXCEPT !.pc = "store",
                                                !.okAt = IF @ = 0 THEN rq[k].idx ELSE @])
            /\ UNCHANGED <<badge, storage>>
       ELSE IF rq[k].idx < Len(BgCandidates)
       THEN /\ rq' = Replace(k, BgNextCandidate(rq[k]))
            /\ UNCHANGED bgVars
       ELSE /\ detectedAirNavX' = NULL
            /\ lastDetectionTime' = IF ValueAndStamp(k).stamp THEN now ELSE lastDetectionTime
            /\ detectedWriter' = Written(detectedWriter, k)
            /\ badge' = "x"
            /\ rq' = Replace(k, BgNextCandidate(rq[k]))
            /\ UNCHANGED storage
    /\ UNCHANGED <<clockVars, windowQueue, relayVars, callerVars, posts>>

\* chrome.storage.local.set of handler k settles (part_002:51-67); a rejection
\* is caught by the loop's catch, which moves on to the next candidate. The
\* stored last_detection is never read and is left out.
BgStoreDone(k, outcome) ==
    /\ rq[k].layer = "bg" /\ rq[k].pc = "store"
    /\ IF outcome = "ok"
       THEN /\ storage' = [airnavx_host |-> BgCandidates[rq[k].idx].host,
                           airnavx_port |-> BgCandidates[rq[k].idx].port]
            /\ badge' = "v"
            /\ rq' = Replace(k, BgAfterDetect(rq[k], detectedAirNavX))
            /\ UNCHANGED <<detectedAirNavX, lastDetectionTime, detectedWriter>>
       ELSE IF rq[k].idx < Len(BgCandidates)
       THEN /\ rq' = Replace(k, BgNextCandidate(rq[k]))
            /\ UNCHANGED bgVars
       ELSE /\ detectedAirNavX' = NULL
            /\ lastDetectionTime' = IF ValueAndStamp(k).stamp THEN now ELSE lastDetectionTime
            /\ detectedWriter' = Written(detectedWriter, k)
            /\ badge' = "x"
            /\ rq' = Replace(k, BgNextCandidate(rq[k]))
            /\ UNCHANGED storage
    /\ UNCHANGED <<clockVars, windowQueue, relayVars, callerVars, posts>>

\* the fetch of fetchFromAirNavX of handler k settles (part_002:126-152)
BgFetchDone(k, outcome) ==
    /\ rq[k].layer = "bg" /\ rq[k].pc = "fetch"
    /\ rq' = Replace(k, BgFetchResume(rq[k], outcome))
    /\ UNCHANGED <<clockVars, windowQueue, relayVars, bgVars, callerVars, posts>>

\* time passes
Tick ==
    /\ ticks < MaxTicks
    /\ now' = now + TickStep(context)
    /\ ticks' = ticks + 1
    /\ UNCHANGED <<context, windowQueue, rq, relayVars, bgVars, callerVars, posts>>

\* the relay and the coordinator share no variable and exchange no message
\* (part_001 never calls chrome.runtime): a run follows one of them
Start(contexts) ==
    /\ context \in contexts
    /\ now = StartTime
    /\ ticks = 0
    /\ windowQueue = <<>>
    /\ rq = <<>>
    /\ airnavxCache = NULL
    /\ airnavxCacheTimestamp = 0
    /\ airnavxCacheWriter = NoWriter
    /\ detectedAirNavX = NULL
    /\ lastDetectionTime = 0
    /\ detectedWriter = NoWriter
    /\ badge = ""
    /\ storage = NULL
    /\ requestCounter = 0
    /\ pendingRequests = {}
    /\ calls = <<>>
    /\ posts = 0

Init == Start({"relay", "bg"})

-----------------------------------------------------------------------------
(* Caller: the page API, injected.js *)

\* the promise sendMessage returns, with what happened to it
\*   state, value: the promise; settles: calls of its resolve or reject
\*   matched: replies the listener matched to it; heard: RESPONSE events
\*   bearing its id the listener was handed; timer: the setTimeout of the call
\*   after: the calls that had settled when it was made
\*   ignored: message events bearing its id that the listener returned from
\*   at its source or type test while the call was pending
NewCall(requestId) ==
    [requestId |-> requestId, state |-> "pending", value |-> NULL,
     settles |-> 0, matched |-> 0, heard |-> 0, ignored |-> 0,
     timer |-> "armed", t0 |-> now,
     after |-> Len(SelectSeq(calls, LAMBDA c : c.state # "pending"))]

\* a slip: the id taken from the size of the pending table
NextRequestIdFromTable == Cardinality(pendingRequests) + 1

\* `++requestCounter` (injected.js:58)
NextRequestId == requestCounter + 1

\* resolve or reject of a promise: only the first call settles it
Settle(c, state, value) ==
    [c EXCEPT !.settles = @ + 1,
              !.state = IF c.state = "pending" THEN state ELSE @,
              !.value = IF c.state = "pending" THEN value ELSE @]

\* a slip: the entry is kept after its reply
PendingKeptAfterReply(requestId) == pendingRequests

\* `pendingRequests.delete(requestId)` after a matched reply (injected.js:31)
PendingAfterReply(requestId) == pendingRequests \ {requestId}

\* a slip: the entry is kept after its timeout
PendingKeptAfterTimeout(requestId) == pendingRequests

\* `pendingRequests.delete(requestId)` in the timer (injected.js:76)
PendingAfterTimeout(requestId) == pendingRequests \ {requestId}

\* the page's message listener on a RESPONSE whose id is pending
\* (injected.js:22-31)
MatchReply(c, m) ==
    IF m.error # NULL
    THEN Settle([c EXCEPT !.matched = @ + 1], "rejected", m.error)
    ELSE Settle([c EXCEPT !.matched = @ + 1], "resolved", m.result)

\* a slip: the listener without its test of the source
PageAcceptsAnySource(m) == m.type = RESPONSE

\* the messages the page's listener handles (injected.js:13-18)
PageAccepts(m) == m.source = "window" /\ m.type = RESPONSE

\* a slip: the reply is handed to whichever call is pending
LookupAnyPending(c, m) == c.state = "pending"

\* `pendingRequests.get(requestId)` (injected.js:22): the entry of call c is
\* the one looked up for message m
Lookup(c, m) == c.requestId = m.requestId

\* the page's message listener (injected.js:11-35): the promises after it ran
InjectedOnMessage(m) ==
    [i \in DOMAIN calls |->
        IF PageAccepts(m) /\ Lookup(calls[i], m)
        THEN IF m.requestId \in pendingRequests
             THEN MatchReply([calls[i] EXCEPT !.heard = @ + 1], m)
             ELSE [calls[i] EXCEPT !.heard = @ + 1]
        ELSE IF /\ ~PageAccepts(m) /\ calls[i].requestId = m.requestId
                /\ calls[i].state = "pending"
        THEN [calls[i] EXCEPT !.ignored = @ + 1]
        ELSE calls[i]]

\* a slip: the timer rejects without looking the id up
TimerCallbackUnguarded(c) ==
    Settle([c EXCEPT !.timer = "fired"], "rejected", Err("Request timeout"))

\* the timer callback of call c (injected.js:73-79)
TimerCallback(c) ==
    IF c.requestId \in pendingRequests
    THEN Settle([c EXCEPT !.timer = "fired"], "rejected", Err("Request timeout"))
    ELSE [c EXCEPT !.timer = "fired"]

\* the methods of window.AirNavXBridge (injected.js:38-53)
ApiCalls ==
    {In("detect", FALSE, ""), In("detect", TRUE, ""), In("search", FALSE, "32-11-11"),
     In("fetchContent", FALSE, "DMC-X")}

\* the last instant the bounded clock reaches
Horizon == StartTime + MaxTicks * TickStep(context)

\* sendMessage(method, params) (injected.js:56-81); calls are made while the
\* bounded clock can still reach their timeout
Call(in) ==
    /\ context \in {"page", "bridge"}
    /\ requestCounter < MaxCalls
    /\ now + CALL_TIMEOUT <= Horizon
    /\ requestCounter' = NextRequestId
    /\ pendingRequests' = pendingRequests \cup {NextRequestId}
    /\ windowQueue' = Append(windowQueue,
                             RequestMsg(in.method, NextRequestId, in.flag, in.arg))
    /\ calls' = Append(calls, NewCall(NextRequestId))
    /\ UNCHANGED <<clockVars, rq, relayVars, bgVars, posts>>

\* the setTimeout of the i-th call fires, 30 s after the call or later
Timeout(i) ==
    /\ i \in DOMAIN calls
    /\ calls[i].timer = "armed"
    /\ now >= calls[i].t0 + CALL_TIMEOUT
    /\ calls' = [calls EXCEPT ![i] = TimerCallback(calls[i])]
    /\ pendingRequests' = IF calls[i].requestId \in pendingRequests
                           THEN PendingAfterTimeout(calls[i].requestId)
                           ELSE pendingRequests
    /\ UNCHANGED <<clockVars, windowQueue, rq, relayVars, bgVars, requestCounter, posts>>

\* the messages other scripts put on the window: the relay's RESPONSE to a
\* request (any id, a result or an error, any number of times), a RESPONSE
\* from another frame, a message of another type
Foreign ==
    {Msg("window", RESPONSE, Absent, id, FALSE, "", [success |-> TRUE], error) :
        id \in 1..(MaxCalls + 1), error \in {NULL, Err("AirNavX not available")}}
    \cup {Msg("frame", RESPONSE, Absent, 1, FALSE, "", [success |-> TRUE], NULL),
          Msg("window", "OTHER", Absent, 1, FALSE, "", [success |-> TRUE], NULL)}

\* a script other than the page API posts m on the window
WindowPost(m) ==
    /\ context \in {"page", "bridge"}
    /\ posts < MaxPosts
    /\ posts' = posts + 1
    /\ windowQueue' = Append(windowQueue, m)
    /\ UNCHANGED <<clockVars, rq, relayVars, bgVars, callerVars>>

\* the window dispatches its next message event to the page's listener
DeliverPage ==
    /\ context = "page"
    /\ windowQueue # <<>>
    /\ windowQueue' = Tail(windowQueue)
    /\ calls' = InjectedOnMessage(Head(windowQueue))
    /\ pendingRequests' =
          IF PageAccepts(Head(windowQueue)) /\ Head(windowQueue).requestId \in pendingRequests
          THEN PendingAfterReply(Head(windowQueue).requestId)
          ELSE pendingRequests
    /\ UNCHANGED <<clockVars, rq, relayVars, bgVars, requestCounter, posts>>

\* message events neither listener is meant for: a RESPONSE and a REQUEST
\* from another frame, and a message of another type from the window; each
\* bears the id of the first call
Strays ==
    {Msg("frame", RESPONSE, Absent, 1, FALSE, "", [success |-> TRUE], NULL),
     Msg("frame", REQUEST, "detect", 1, FALSE, "", NULL, NULL),
     Msg("window", "OTHER", "detect", 1, FALSE, "", [success |-> TRUE], NULL)}

\* the window dispatches its next message event: the page's listener
\* (injected.js:11-35) and the content script's listener (part_001:15-81, up
\* to its first await) both receive it
Dispatch ==
    /\ context = "bridge"
    /\ windowQueue # <<>>
    /\ LET m == Head(windowQueue)
           after == RelayOnMessage(m)
       IN  /\ calls' = InjectedOnMessage(m)
           /\ pendingRequests' =
                 IF PageAccepts(m) /\ m.requestId \in pendingRequests
                 THEN PendingAfterReply(m.requestId)
                 ELSE pendingRequests
           /\ rq' = after
           /\ windowQueue' = Tail(windowQueue)
                                \o (IF Len(after) > Len(rq) THEN after[Len(after)].replies
                                                             ELSE <<>>)
    /\ UNCHANGED <<clockVars, relayVars, bgVars, requestCounter, posts>>

-----------------------------------------------------------------------------
(* Specifications *)

\* the requests of the discovery runs: the operations that start with a probe
RelayProbing == {In("detect", FALSE, ""), In("detect", TRUE, ""), In("search", FALSE, "32-11-11")}
BgProbing == {In("detect", FALSE, ""), In("detect", TRUE, ""), In("search", FALSE, "32-11-11")}

\* discovery at the relay and at the coordinator: up to MaxReq overlapping
\* handlers, chrome.storage working
Next ==
    \/ \E in \in RelayProbing : RelayReceive(in, MaxReq)
    \/ \E k \in DOMAIN rq, outcome \in FetchOutcomes : RelayProbeDone(k, outcome)
    \/ \E k \in DOMAIN rq, outcome \in SearchOutcomes : RelaySearchDone(k, outcome)
    \/ \E in \in BgProbing : BgReceive(in, MaxReq)
    \/ \E timer \in BgTimers : BgTimer(timer, MaxReq)
    \/ \E k \in DOMAIN rq, outcome \in FetchOutcomes : BgProbeDone(k, outcome)
    \/ \E k \in DOMAIN rq : BgStoreDone(k, "ok")
    \/ \E k \in DOMAIN rq, outcome \in BgFetchOutcomes : BgFetchDone(k, outcome)
    \/ Tick

Spec == Init /\ [][Next]_vars

\* every kind of request a context can be handed
RelayInputs ==
    {In("detect", FALSE, ""), In("detect", TRUE, ""), In("search", FALSE, "32-11-11"),
     In("fetchContent", FALSE, ""), In("customCall", FALSE, "/airnavx/api"),
     In("getStatus", FALSE, ""), In(Absent, FALSE, "")}
BgInputs ==
    {In("detect", FALSE, ""), In("detect", TRUE, ""),
     In("search", FALSE, "32-11-11"), In("search", FALSE, ""),
     In("fetchContent", FALSE, "DMC-X"), In("fetchContent", FALSE, ""),
     In("customFetch", FALSE, "/airnavx/api"), In("customFetch", FALSE, ""),
     In("getStatus", FALSE, ""), In("customCall", FALSE, "/airnavx/api"),
     In(Absent, FALSE, "")}

\* one request at a time, of every kind, with every outcome of the network
\* and of chrome.storage
NextSolo ==
    \/ \E in \in RelayInputs : RelayReceive(in, MaxSolo)
    \/ \E k \in DOMAIN rq, outcome \in FetchOutcomes : RelayProbeDone(k, outcome)
    \/ \E k \in DOMAIN rq, outcome \in SearchOutcomes : RelaySearchDone(k, outcome)
    \/ \E in \in BgInputs : BgReceive(in, MaxSolo)
    \/ \E timer \in BgTimers : BgTimer(timer, MaxSolo)
    \/ \E k \in DOMAIN rq, outcome \in FetchOutcomes : BgProbeDone(k, outcome)
    \/ \E k \in DOMAIN rq, outcome \in StoreOutcomes : BgStoreDone(k, outcome)
    \/ \E k \in DOMAIN rq, outcome \in BgFetchOutcomes : BgFetchDone(k, outcome)
    \/ Tick

SpecSolo == Init /\ [][NextSolo]_vars

\* fetch-by-id, with and without an id
FetchInputs == {In("fetchContent", FALSE, ""), In("fetchContent", FALSE, "DMC-X")}

\* fetch-by-id calls with an id received so far
WithId == Len(SelectSeq(rq, LAMBDA h : h.method = "fetchContent" /\ h.arg # ""))

\* the content runs: up to MaxReq fetch-by-id requests, at most MaxFetch of
\* them with an id, every outcome of every probe and of every attempt
NextFetch ==
    \/ \E in \in FetchInputs :
          /\ in.arg # "" => WithId < MaxFetch
          /\ RelayReceive(in, MaxReq)
    \/ \E k \in DOMAIN rq, outcome \in FetchOutcomes : RelayProbeDone(k, outcome)
    \/ \E k \in DOMAIN rq, outcome \in AttemptOutcomes : RelayAttemptDone(k, outcome)
    \/ \E in \in FetchInputs :
          /\ in.arg # "" => WithId < MaxFetch
          /\ AltReceive(in, MaxReq)
    \/ \E k \in DOMAIN rq, outcome \in AltProbeOutcomes : AltProbeDone(k, outcome)
    \/ \E k \in DOMAIN rq, outcome \in AltAttemptOutcomes : AltAttemptDone(k, outcome)
    \/ \E in \in FetchInputs :
          /\ in.arg # "" => WithId < MaxFetch
          /\ BgReceive(in, MaxReq)
    \/ \E k \in DOMAIN rq, outcome \in FetchOutcomes : BgProbeDone(k, outcome)
    \/ \E k \in DOMAIN rq : BgStoreDone(k, "ok")
    \/ \E k \in DOMAIN rq, outcome \in BgFetchOutcomes : BgFetchDone(k, outcome)

\* a run follows the content script of part_001, the one of part_000, or the
\* service worker
InitFetch == Start({"relay", "alt", "bg"})

SpecFetch == InitFetch /\ [][NextFetch]_vars

\* the calls of the bridge runs: every method of the API, fetch-by-id with
\* and without an id
BridgeCalls ==
    {In("detect", FALSE, ""), In("search", FALSE, "32-11-11"),
     In("fetchContent", FALSE, ""), In("fetchContent", FALSE, "DMC-X")}

\* the attempt outcomes of the bridge runs: the service answers every
\* content request the same way, with JSON or with a non-ok status
BridgeAttemptOutcomes == {"json", "status"}

\* the page and the content script on one window
InitBridge == Start({"bridge"})

\* one call at a time, with the strays of the window and every outcome of
\* the network
NextBridge ==
    \/ \E in \in BridgeCalls : requestCounter < MaxSolo /\ Call(in)
    \/ \E i \in 1..MaxCalls : Timeout(i)
    \/ \E m \in Strays : WindowPost(m)
    \/ Dispatch
    \/ \E k \in DOMAIN rq, outcome \in FetchOutcomes : RelayProbeDone(k, outcome)
    \/ \E k \in DOMAIN rq, outcome \in SearchOutcomes : RelaySearchDone(k, outcome)
    \/ \E k \in DOMAIN rq, outcome \in BridgeAttemptOutcomes : RelayAttemptDone(k, outcome)
    \/ Tick

SpecBridge == InitBridge /\ [][NextBridge]_vars

\* the endpoint texts of the pass-through runs: a path, and texts that go on
\* in the authority of the URL
Endpoints == {"/airnavx/api/x", "@example.com/x", ".example.com/x", "0/x"}
\* the method option: not given, or one of these
CustomVerbs == {Absent, "GET", "POST", "PUT", "DELETE"}
\* the body option
CustomBodies == {"null", "{}", "full"}

WireRelayInputs == {In("search", FALSE, "32-11-11"), In("fetchContent", FALSE, "DMC-X")}
WireBgInputs ==
    {In("search", FALSE, "32-11-11"), In("fetchContent", FALSE, "DMC-X")}
    \cup {InCustom(e, v, b) : e \in Endpoints, v \in CustomVerbs, b \in CustomBodies}

\* the requests on the wire: one request at a time, every operation that
\* ends in a fetch to the service, every option of the pass-through
NextWire ==
    \/ \E in \in WireRelayInputs : RelayReceive(in, MaxSolo)
    \/ \E k \in DOMAIN rq, outcome \in FetchOutcomes : RelayProbeDone(k, outcome)
    \/ \E k \in DOMAIN rq, outcome \in SearchOutcomes : RelaySearchDone(k, outcome)
    \/ \E k \in DOMAIN rq, outcome \in AttemptOutcomes : RelayAttemptDone(k, outcome)
    \/ \E in \in WireBgInputs : BgReceive(in, MaxSolo)
    \/ \E k \in DOMAIN rq, outcome \in FetchOutcomes : BgProbeDone(k, outcome)
    \/ \E k \in DOMAIN rq, outcome \in StoreOutcomes : BgStoreDone(k, outcome)
    \/ \E k \in DOMAIN rq, outcome \in BgFetchOutcomes : BgFetchDone(k, outcome)

SpecWire == Init /\ [][NextWire]_vars

\* a fetch that has an abort timer settles (part_001:107, 259,
\* part_002:34, 122), and so does a chrome.storage write; the fetch of
\* searchTasks (part_001:171-176) has no timer and settles only if the
\* service answers or the connection fails
LiveWire ==
    /\ SpecWire
    /\ WF_vars(\E k \in DOMAIN rq, outcome \in FetchOutcomes : RelayProbeDone(k, outcome))
    /\ WF_vars(\E k \in DOMAIN rq, outcome \in AttemptOutcomes : RelayAttemptDone(k, outcome))
    /\ WF_vars(\E k \in DOMAIN rq, outcome \in FetchOutcomes : BgProbeDone(k, outcome))
    /\ WF_vars(\E k \in DOMAIN rq, outcome \in StoreOutcomes : BgStoreDone(k, outcome))
    /\ WF_vars(\E k \in DOMAIN rq, outcome \in BgFetchOutcomes : BgFetchDone(k, outcome))

\* the calls of the runs with two calls outstanding: their results differ
PairCalls ==
    {In("detect", FALSE, ""), In("search", FALSE, "32-11-11"),
     In("fetchContent", FALSE, "DMC-X")}

\* up to MaxCalls calls, outstanding together, on the window of the page and
\* the content script; the replies come in whatever order the handlers end
NextPair ==
    \/ \E in \in PairCalls : Call(in)
    \/ Dispatch
    \/ \E k \in DOMAIN rq, outcome \in FetchOutcomes : RelayProbeDone(k, outcome)
    \/ \E k \in DOMAIN rq, outcome \in SearchOutcomes : RelaySearchDone(k, outcome)
    \/ \E k \in DOMAIN rq, outcome \in BridgeAttemptOutcomes : RelayAttemptDone(k, outcome)

SpecPair == InitBridge /\ [][NextPair]_vars

\* setTimeout callbacks run in the order of their deadlines: no timer of a
\* call is due
NoCallTimerDue ==
    \A i \in DOMAIN calls :
        calls[i].timer = "armed" => now < calls[i].t0 + CALL_TIMEOUT

\* the abort timer of the current content attempt of relay handler k fires,
\* ATTEMPT_TIMEOUT after the attempt was issued: the fetch rejects with an
\* AbortError (part_001:258-259, 310-314)
AttemptAborted(k) ==
    /\ rq[k].layer = "relay" /\ rq[k].pc = "attempt"
    /\ NoCallTimerDue
    /\ now' = now + ATTEMPT_TIMEOUT
    /\ LET h == AttemptResume(rq[k], "abort")
       IN  /\ rq' = Replace(k, h)
           /\ windowQueue' = windowQueue \o Posted(rq[k], h)
    /\ UNCHANGED <<context, ticks, relayVars, bgVars, callerVars, posts>>

\* what a content attempt's fetch can do before its abort timer fires
PromptOutcomes == {"json", "status", "refused"}

\* one fetchContent call end to end, on the clock: an attempt the service
\* does not answer takes ATTEMPT_TIMEOUT, every other step takes no time
NextSlow ==
    \/ requestCounter < MaxSolo /\ Call(In("fetchContent", FALSE, "DMC-X"))
    \/ \E i \in 1..MaxCalls : Timeout(i)
    \/ Dispatch
    \/ \E k \in DOMAIN rq, outcome \in FetchOutcomes : RelayProbeDone(k, outcome)
    \/ \E k \in DOMAIN rq, outcome \in PromptOutcomes : RelayAttemptDone(k, outcome)
    \/ \E k \in DOMAIN rq : AttemptAborted(k)

SpecSlow == InitBridge /\ [][NextSlow]_vars

\* the probes the content script's finished sweeps made tell how the
\* service answers at a pair: the coordinator's probe of the same pair is
\* answered ok exactly if the content script's was
SameService(pair, outcome) ==
    \A j \in DOMAIN rq :
        (rq[j].layer = "relay" /\ rq[j].pc = "done")
        => \A i \in DOMAIN Probed(rq[j]) :
              Probed(rq[j])[i] = pair => ((outcome = "ok") = (rq[j].okAt = i))

\* the two sweeps side by side: one cold-cache detect at the content script,
\* then one cold-cache detect at the service worker, over the whole port
\* lists and against the same service
InitSweep == Start({"both"})

NextSweep ==
    \/ rq = <<>> /\ RelayReceive(In("detect", FALSE, ""), MaxReq)
    \/ \E k \in DOMAIN rq, outcome \in FetchOutcomes : RelayProbeDone(k, outcome)
    \/ /\ Len(rq) = 1 /\ rq[1].pc = "done"
       /\ BgReceive(In("detect", FALSE, ""), MaxReq)
    \/ \E k \in DOMAIN rq, outcome \in FetchOutcomes :
          /\ rq[k].layer = "bg" /\ rq[k].pc = "probe"
          /\ SameService(BgCandidates[rq[k].idx], outcome)
          /\ BgProbeDone(k, outcome)
    \/ \E k \in DOMAIN rq : BgStoreDone(k, "ok")

SpecSweep == InitSweep /\ [][NextSweep]_vars

\* the page API, with the window's other traffic
InitCaller == Start({"page"})

NextCaller ==
    \/ \E in \in ApiCalls : Call(in)
    \/ \E i \in 1..MaxCalls : Timeout(i)
    \/ \E m \in Foreign : WindowPost(m)
    \/ DeliverPage
    \/ Tick

SpecCaller == InitCaller /\ [][NextCaller]_vars

\* timers fire and queued message events are dispatched; the clock advances
LiveCaller ==
    /\ SpecCaller
    /\ WF_vars(Tick)
    /\ WF_vars(DeliverPage)
    /\ \A i \in 1..MaxCalls : WF_vars(Timeout(i))

-----------------------------------------------------------------------------
(* Properties *)

\* the validity window of a context's discovery cache
Window(layer) == IF layer = "relay" THEN CACHE_DURATION ELSE BG_CACHE_DURATION

\* a handler that stands for a request (the timer listeners answer nobody)
IsRequest(h) == h.method \notin BgTimers

\* the handler asked for a forced probe: detect with its flag set
Forced(h) == h.method = "detect" /\ h.force

\* the handler asked for probe(false): any other operation that probes
NotForced(h) ==
    /\ h.method \in {"detect", "search", "fetchContent", "customFetch"}
    /\ ~Forced(h)

\* the methods a context's switch names
Recognized(layer) ==
    IF layer = "relay" THEN {"detect", "search", "fetchContent"}
    ELSE {"detect", "search", "fetchContent", "customFetch", "getStatus"}

\* a reply that reports a failure: the relay's error field, the
\* coordinator's envelope with success false
IsErrorReply(layer, m) ==
    IF layer \in {"relay", "alt"} THEN m.error # NULL /\ m.error.message # ""
    ELSE m.result # NULL /\ ~m.result.success /\ m.result.error # ""

\* the promise of a call
Promise(c) == <<c.state, c.value, c.settles>>
Promises == [i \in DOMAIN calls |-> Promise(calls[i])]

\* C1: in every sweep, once a pair has answered with a success status no
\* later pair of the host-then-port order is probed: the sweep's probes end
\* at the first pair that answered ok.
C1_ShortCircuit ==
    \A k \in DOMAIN rq : rq[k].okAt # 0 => Len(Probed(rq[k])) = rq[k].okAt

\* C2: of two probe(false) invocations of a context made less than a validity
\* window apart, at most one performs network probing.
C2_OneSweepPerWindow ==
    \A j, k \in DOMAIN rq :
        (/\ j < k
         /\ NotForced(rq[j]) /\ NotForced(rq[k])
         /\ rq[k].t0 - rq[j].t0 < Window(rq[j].layer))
        => ~(rq[j].swept /\ rq[k].swept)

\* C3: a detect with forceRefresh set always runs a sweep, whatever the cache
\* holds.
C3_ForceAlwaysSweeps ==
    \A k \in DOMAIN rq : Forced(rq[k]) => rq[k].swept

\* C4: a probe(false) made within the validity window of a sweep that ended
\* NotFound performs no network I/O.
C4_NotFoundIsCached ==
    \A k \in DOMAIN rq :
        (NotForced(rq[k]) /\ rq[k].afterNotFound) => (~rq[k].swept /\ rq[k].http = <<>>)

\* C5: a request whose handler has returned was answered by exactly one
\* reply, which bears the request's id.
C5_ExactlyOneReply ==
    \A k \in DOMAIN rq :
        (IsRequest(rq[k]) /\ rq[k].pc = "done")
        => (Len(rq[k].replies) = 1 /\ rq[k].replies[1].requestId = rq[k].requestId)

\* C6: no call is matched to more than one reply, and the delivery of a
\* message whose id has no pending entry changes neither the pending table
\* nor any promise.
C6_AtMostOneMatch ==
    /\ [](\A i \in DOMAIN calls : calls[i].matched <= 1)
    /\ [][(/\ windowQueue # <<>>
           /\ windowQueue' = Tail(windowQueue)
           /\ Head(windowQueue).requestId \notin pendingRequests)
          => (pendingRequests' = pendingRequests /\ Promises' = Promises)]_vars

\* C6 happens: a second RESPONSE with the id of an answered call was delivered
C6_DuplicateDelivered ==
    \E i \in DOMAIN calls : calls[i].heard >= 2 /\ calls[i].matched = 1

\* C7: a call whose timer fired before any reply was matched has no pending
\* entry and is rejected with the timeout error, and stays so: a reply that
\* comes later is matched to nothing and settles nothing.
C7_TimeoutThenDiscard ==
    \A i \in DOMAIN calls :
        (calls[i].timer = "fired"
            /\ (calls[i].matched = 0 \/ calls[i].value = Err("Request timeout")))
        => (/\ calls[i].requestId \notin pendingRequests
            /\ calls[i].state = "rejected"
            /\ calls[i].value = Err("Request timeout")
            /\ calls[i].matched = 0
            /\ calls[i].settles = 1)

\* C7 happens: a RESPONSE with the id of a timed-out call was delivered
C7_LateReplyDelivered ==
    \E i \in DOMAIN calls :
        calls[i].value = Err("Request timeout") /\ calls[i].heard >= 1

\* C8: every call settles, once; its pending entry is there exactly while it
\* is unsettled, so the table holds the ids of the outstanding calls and
\* nothing else; a timer that fires for an answered call changes neither the
\* table nor any promise.
C8_SettlesOnce ==
    /\ [](\A i \in DOMAIN calls :
            /\ calls[i].settles <= 1
            /\ (calls[i].state = "pending") = (calls[i].settles = 0)
            /\ (calls[i].state = "pending") = (calls[i].requestId \in pendingRequests))
    /\ [](pendingRequests = {calls[i].requestId :
                                i \in {j \in DOMAIN calls : calls[j].state = "pending"}})
    /\ [][(\E i \in DOMAIN calls :
              /\ calls[i].state # "pending"
              /\ calls[i].timer = "armed"
              /\ calls'[i].timer = "fired")
          => (pendingRequests' = pendingRequests /\ Promises' = Promises)]_vars
    /\ \A i \in 1..MaxCalls :
          (Len(calls) >= i) ~> (Len(calls) >= i /\ calls[i].state # "pending")

\* C8 happens: the timer of an answered call fired while another call was
\* outstanding
C8_StaleTimerFired ==
    \E i, j \in DOMAIN calls :
        /\ calls[i].state = "resolved" /\ calls[i].timer = "fired"
        /\ calls[j].state = "pending"

\* C9: a request that names a method the context's switch does not know is
\* answered, by one reply that bears its id and reports an error.
C9_UnknownMethodAnswered ==
    \A k \in DOMAIN rq :
        (IsRequest(rq[k]) /\ rq[k].method \notin Recognized(rq[k].layer) \cup {Absent})
        => (/\ rq[k].pc = "done"
            /\ Len(rq[k].replies) = 1
            /\ rq[k].replies[1].requestId = rq[k].requestId
            /\ IsErrorReply(rq[k].layer, rq[k].replies[1]))

\* C9 happens: the relay was handed a request for a method it does not know
C9_UnknownMethodReceived ==
    \E k \in DOMAIN rq :
        /\ rq[k].layer = "relay"
        /\ rq[k].method = "customCall"
        /\ rq[k].replies # <<>>

IsFetchById(h) == h.method = "fetchContent"
ContentRequests(h) == SelectSeq(h.http, LAMBDA q : q.kind \in {"content", "fetchContent"})

\* C11: a fetch-by-id without an id is answered by an error that names the
\* missing argument, and its handler sends no HTTP request: no probe, no
\* content request, whatever the discovery cache holds.
C11_EmptyIdNoNetwork ==
    \A k \in DOMAIN rq :
        (IsFetchById(rq[k]) /\ rq[k].arg = "")
        => (/\ rq[k].http = <<>> /\ ~rq[k].swept
            /\ rq[k].pc = "done"
            /\ Len(rq[k].replies) = 1
            /\ IsErrorReply(rq[k].layer, rq[k].replies[1])
            /\ IF rq[k].layer \in {"relay", "alt"}
               THEN rq[k].replies[1].error = Err("dataModuleId is required")
               ELSE rq[k].replies[1].result = Failure("dataModuleId required"))

\* C11 happens: the coordinator was handed a fetch-by-id without an id while
\* its cache held an endpoint
C11_EmptyIdOnWarmCache ==
    \E k \in DOMAIN rq :
        /\ rq[k].layer = "bg" /\ IsFetchById(rq[k]) /\ rq[k].arg = ""
        /\ k > 1 /\ rq[k - 1].okAt # 0 /\ rq[k - 1].pc = "done"
        /\ detectedAirNavX # NULL

\* C12: in a fetch-by-id call, once an attempt has received a response with
\* an ok status no later attempt is issued, whatever the content type and
\* the body of that response: the call's content requests end at that attempt.
C12_AttemptShortCircuit ==
    \A k \in DOMAIN rq :
        (rq[k].layer = "relay" /\ rq[k].okAtt # 0)
        => Len(ContentRequests(rq[k])) = rq[k].okAtt

\* the fallback list is exhausted and every attempt failed
AllFailed(h) ==
    /\ h.layer = "relay" /\ h.pc = "done"
    /\ Len(h.outs) = Len(attempts)
    /\ \A i \in DOMAIN h.outs : h.outs[i] \notin {"json", "text"}

\* the reason an entry of the aggregate error gives for a failure
Reason(outcome) ==
    CASE outcome = "status" -> "HTTP status"
      [] outcome = "abort" -> "Request timeout (10s)"
      [] outcome = "refused" -> "Failed to fetch"
      [] OTHER -> "Unexpected token"

C14_NamesFirstOkAttempt ==
    \A k \in DOMAIN rq :
        (/\ rq[k].layer = "relay" /\ IsFetchById(rq[k]) /\ rq[k].pc = "done"
         /\ rq[k].replies # <<>>
         /\ rq[k].replies[1].error = NULL)
        => (/\ rq[k].replies[1].result.success
            /\ rq[k].okAtt # 0
            /\ rq[k].replies[1].result.method = attempts[rq[k].okAtt].name
            /\ Len(ContentRequests(rq[k])) = rq[k].okAtt)

\* C15: the content requests of a fetch-by-id call that has an id and a
\* discovered endpoint are, in order, the first entries of one list of seven:
\* six GETs (the id as dataModuleId, the same with the flags, as dmCode, as
\* id, as a path segment, on the viewer route) and last a POST with a JSON
\* body; each goes to the discovered endpoint and is issued once.
C15_AttemptsFollowTheList ==
    /\ Len(attempts) = 7
    /\ \A i \in 1..6 : attempts[i].method = "GET"
    /\ attempts[7].method = "POST" /\ attempts[7].body
    /\ \A k \in DOMAIN rq :
        (/\ rq[k].layer \in {"relay", "alt"} /\ IsFetchById(rq[k])
         /\ rq[k].arg # "" /\ rq[k].ep # NULL)
        => (/\ Len(ContentRequests(rq[k])) <= Len(attempts)
            /\ \A i \in DOMAIN ContentRequests(rq[k]) :
                  /\ ContentRequests(rq[k])[i].verb = attempts[i].method
                  /\ ContentRequests(rq[k])[i].name = attempts[i].url
                  /\ ContentRequests(rq[k])[i].body = (attempts[i].method = "POST")
                  /\ ContentRequests(rq[k])[i].host = rq[k].ep.host
                  /\ ContentRequests(rq[k])[i].port = rq[k].ep.port)

\* a query-by-keyword handler that has a query, and its search requests
IsSearch(h) == h.method = "search" /\ h.arg # ""
SearchRequests(h) == SelectSeq(h.http, LAMBDA q : q.kind = "search")

\* the error a context gives when discovery found no service
Unavailable(layer, m) ==
    IF layer = "bg"
    THEN m.result = Failure("AirNavX not detected. Please ensure AirNavX is running.")
    ELSE m.error = Err("AirNavX not available")

\* C16: a query-by-keyword sends its search request only to the endpoint
\* that discovery handed it, and when discovery handed it NotFound it sends
\* no search request and is answered by the service-unavailable error.
C16_SearchNeedsDiscovery ==
    \A k \in DOMAIN rq :
        IsSearch(rq[k])
        => (/\ SearchRequests(rq[k]) # <<>>
                => (/\ rq[k].ep # NULL
                    /\ Len(SearchRequests(rq[k])) = 1
                    /\ SearchRequests(rq[k])[1].host = rq[k].ep.host
                    /\ SearchRequests(rq[k])[1].port = rq[k].ep.port)
            /\ (rq[k].pc = "done" /\ rq[k].ep = NULL)
                => (/\ SearchRequests(rq[k]) = <<>>
                    /\ Len(rq[k].replies) = 1
                    /\ Unavailable(rq[k].layer, rq[k].replies[1])))

\* C16 happens: a search at the relay was answered after a sweep that found
\* no service
C16_SearchAfterNotFound ==
    \E k \in DOMAIN rq :
        /\ IsSearch(rq[k]) /\ rq[k].layer = "relay"
        /\ rq[k].swept /\ rq[k].pc = "done" /\ rq[k].ep = NULL
        /\ Len(Probed(rq[k])) = Len(RelayCandidates)

\* C17: a call that the relay answered, whatever the outcome of the
\* operation, has resolved to an envelope: an object with a success flag
\* (false, with the error, when the operation failed).
C17_FailureIsAnEnvelope ==
    \A i \in DOMAIN calls :
        calls[i].matched >= 1
        => (/\ calls[i].state = "resolved"
            /\ "success" \in DOMAIN calls[i].value)

\* the messages each listener is meant for
PageExpects(m) == m.source = "window" /\ m.type = RESPONSE
RelayExpects(m) == m.source = "window" /\ m.type = REQUEST

\* a step in which the window dispatches the head of its queue: no call is
\* made, no message is posted by another script, no handler resumes, no
\* timer fires and the clock stands
DispatchStep ==
    /\ context = "bridge" /\ windowQueue # <<>>
    /\ requestCounter' = requestCounter /\ posts' = posts /\ now' = now
    /\ \A k \in DOMAIN rq : k \in DOMAIN rq' /\ rq'[k] = rq[k]
    /\ \A i \in DOMAIN calls : calls'[i].timer = calls[i].timer

\* C20: the dispatch of a message that is not a RESPONSE from the window
\* itself changes neither the pending table nor any promise, and the dispatch
\* of a message that is not a REQUEST from the window itself starts no
\* handler at the relay (so no network I/O) and puts no reply on the window.
C20_StraysIgnored ==
    [][DispatchStep
       => (/\ ~PageExpects(Head(windowQueue))
               => (pendingRequests' = pendingRequests /\ Promises' = Promises)
           /\ ~RelayExpects(Head(windowQueue))
               => (rq' = rq /\ windowQueue' = Tail(windowQueue)))]_vars

\* C20 happens: besides its own REQUEST, a stray bearing the id of a pending
\* call was dispatched, and the call is still pending
C20_StrayDispatchedWhilePending ==
    \E i \in DOMAIN calls :
        /\ calls[i].ignored >= 2 /\ calls[i].state = "pending"
        /\ calls[i].requestId \in pendingRequests

\* what a finished detect handed back: the endpoint, or NotFound
Discovered(h) ==
    IF h.replies[1].result.success
    THEN <<h.replies[1].result.host, h.replies[1].result.port>> ELSE <<>>

\* C18: a cold-cache sweep of the content script and a cold-cache sweep of
\* the service worker against the same service probe the same candidates in
\* the same order and hand back the same result.
C18_SameDiscovery ==
    \A j, k \in DOMAIN rq :
        (/\ rq[j].layer = "relay" /\ rq[k].layer = "bg"
         /\ rq[j].pc = "done" /\ rq[k].pc = "done")
        => (/\ Probed(rq[j]) = Probed(rq[k])
            /\ Discovered(rq[j]) = Discovered(rq[k]))

\* C19: the content requests of a fetch-by-id at the service worker are, in
\* order, the first entries of the content script's fallback list, and a
\* fetch-by-id that failed at the service worker has issued the whole list.
C19_SameFallback ==
    \A k \in DOMAIN rq :
        (rq[k].layer = "bg" /\ IsFetchById(rq[k]) /\ rq[k].arg # "")
        => (/\ Len(ContentRequests(rq[k])) <= Len(attempts)
            /\ \A i \in DOMAIN ContentRequests(rq[k]) :
                  /\ ContentRequests(rq[k])[i].verb = attempts[i].method
                  /\ ContentRequests(rq[k])[i].name = attempts[i].url
                  /\ ContentRequests(rq[k])[i].body = (attempts[i].method = "POST")
            /\ (/\ rq[k].pc = "done" /\ rq[k].ep # NULL
                /\ ~rq[k].replies[1].result.success)
                => Len(ContentRequests(rq[k])) = Len(attempts))

\* the operations the documentation offers beside detect, search and
\* fetchContent (README.md:78-92)
PassThrough == {"customCall", "customFetch", "getStatus"}

\* C21: a pass-through or getStatus request the content script received is
\* answered, and not with the unknown-method error.
C21_PassThroughDispatched ==
    \A k \in DOMAIN rq :
        (rq[k].layer = "relay" /\ rq[k].method \in PassThrough /\ rq[k].pc = "done")
        => (/\ Len(rq[k].replies) = 1
            /\ rq[k].replies[1].error # Err("Unknown method"))

\* the hosts and ports of the candidate lists of a context
CandidateHosts(layer) ==
    IF layer = "bg" THEN {AIRNAVX_HOSTS[i] : i \in DOMAIN AIRNAVX_HOSTS}
                    ELSE {hostsToTest[i] : i \in DOMAIN hostsToTest}
CandidatePorts(layer) ==
    IF layer = "bg" THEN {AIRNAVX_CANDIDATE_PORTS[i] : i \in DOMAIN AIRNAVX_CANDIDATE_PORTS}
                    ELSE {candidatePorts[i] : i \in DOMAIN candidatePorts}

\* C22: every HTTP request of the content script and of the service worker
\* goes to a host of the candidate hosts and a port of the candidate ports,
\* whatever the query, the id and the endpoint, method and body of a
\* pass-through are.
C22_LocalhostOnly ==
    \A k \in DOMAIN rq : \A i \in DOMAIN rq[k].http :
        /\ rq[k].http[i].host \in CandidateHosts(rq[k].layer)
        /\ rq[k].http[i].port \in CandidatePorts(rq[k].layer)

\* C22 happens: the service was found, and a pass-through whose endpoint
\* names another host was answered without a request to it
C22_ForeignEndpointRefused ==
    \E k \in DOMAIN rq :
        /\ rq[k].layer = "bg" /\ rq[k].method = "customFetch"
        /\ Lead(rq[k].arg) = "@"
        /\ rq[k].pc = "done" /\ rq[k].ep # NULL
        /\ Len(rq[k].replies) = 1 /\ ~rq[k].replies[1].result.success
        /\ \A i \in DOMAIN rq[k].http : rq[k].http[i].kind = "probe"

\* the candidates of a context's sweep
Candidates(layer) == IF layer = "bg" THEN BgCandidates ELSE RelayCandidates

\* a finished detect handed NotFound back
AnsweredNotFound(h) ==
    /\ h.replies[1].result # NULL
    /\ ~h.replies[1].result.success

\* C23: a detect that swept hands back a result and no error, and the result
\* is NotFound exactly if every candidate was probed and none of them
\* answered with a success status.
C23_NotFoundOnlyAfterAll ==
    \A k \in DOMAIN rq :
        (rq[k].method = "detect" /\ rq[k].swept /\ rq[k].pc = "done")
        => (/\ Len(rq[k].replies) = 1
            /\ rq[k].replies[1].error = NULL
            /\ AnsweredNotFound(rq[k])
               <=> (/\ Len(Probed(rq[k])) = Len(Candidates(rq[k].layer))
                    /\ rq[k].okAt = 0))

\* the k-th request's handler has returned and its reply is out
Answered(k) ==
    /\ k \in DOMAIN rq
    /\ rq[k].pc = "done"
    /\ Len(rq[k].replies) = 1

\* C24: every request that was dispatched is answered in the end: its
\* handler returns and its reply is emitted, even if the service accepts
\* the connection and never responds.
C24_EveryOperationReplies ==
    \A k \in 1..MaxSolo :
        [](k \in DOMAIN rq => <>Answered(k))

\* a cache entry is whole: its value and its timestamp were assigned by the
\* sweep of the same handler, and the timestamp is the instant of the
\* assignment of the value
Whole(writer, timestamp) ==
    /\ writer.value = writer.stamp
    /\ writer.at = timestamp

SettledWith(c, h) ==
    /\ Len(h.replies) = 1
    /\ IF h.replies[1].error # NULL
       THEN c.state = "rejected" /\ c.value = h.replies[1].error
       ELSE c.state = "resolved" /\ c.value = h.replies[1].result

\* C26: a call that a reply settled carries the result or the error the
\* content script computed for the request with the call's own id,
\* whatever the order of the replies.
C26_MatchedById ==
    \A i \in DOMAIN calls :
        (calls[i].state # "pending" /\ calls[i].matched > 0)
        => \E k \in DOMAIN rq :
              /\ rq[k].requestId = calls[i].requestId
              /\ SettledWith(calls[i], rq[k])

\* C26 happens: two calls are outstanding together and the reply to the
\* second has settled it while the handler of the first is still suspended
C26_RepliesOutOfOrder ==
    \E i, j \in DOMAIN calls :
        /\ i < j
        /\ calls[j].after = 0
        /\ calls[j].matched = 1 /\ calls[j].state = "resolved"
        /\ calls[i].state = "pending"
        /\ \E k \in DOMAIN rq :
              /\ rq[k].requestId = calls[i].requestId
              /\ rq[k].pc # "done"

\* the requests fetchFromAirNavX sent for a handler
FetchRequests(h) == SelectSeq(h.http, LAMBDA q : q.kind # "probe")

\* C27: a request of the pass-through, and of fetch-by-id, at the service
\* worker has a body exactly if its method is POST or PUT and the body
\* handed over has keys; a GET, and an empty object, go without a body.
C27_BodyOnlyWhenNonEmpty ==
    \A k \in DOMAIN rq :
        (rq[k].layer = "bg" /\ rq[k].method \in {"customFetch", "fetchContent"})
        => \A i \in DOMAIN FetchRequests(rq[k]) :
              FetchRequests(rq[k])[i].body
              <=> (/\ FetchRequests(rq[k])[i].verb \in {"POST", "PUT"}
                   /\ BgFetchBody(rq[k]) = "full")

\* C28: when every attempt of a fetchContent call has failed and the reply
\* has reached the page, the call's promise is rejected with the aggregate
\* error that lists the attempts.
C28_CallerSeesAggregate ==
    \A i \in DOMAIN calls : \A k \in DOMAIN rq :
        (/\ rq[k].requestId = calls[i].requestId
         /\ AllFailed(rq[k])
         /\ calls[i].heard > 0)
        => (/\ calls[i].state = "rejected"
            /\ calls[i].value = rq[k].replies[1].error
            /\ Len(calls[i].value.errors) = Len(attempts))

\* a sweep of the service worker is in progress
Sweeping ==
    \E k \in DOMAIN rq : rq[k].layer = "bg" /\ rq[k].pc \in {"probe", "store"}

\* C29: at the service worker, while no sweep is in progress, the badge
\* shows the found mark exactly if the discovery cache holds an endpoint.
C29_BadgeFollowsCache ==
    (context = "bg" /\ ~Sweeping) => ((badge = "v") <=> (detectedAirNavX # NULL))

====
